---- MODULE Spec2Model ----
(***************************************************************************)
(* Audio tile synthesis and stitching engine: ElevenLabsSFXClient of       *)
(* backend/services/elevenlabs_sfx.py.                                     *)
(*                                                                         *)
(* Python floats are modelled as exact rationals <<num, den>> (den > 0,    *)
(* lowest terms), an Optional[T] as a sequence of length 0 (None) or 1,    *)
(* a numpy array as a sequence of rationals.                               *)
(***************************************************************************)
EXTENDS Integers, Sequences, FiniteSets, TLC

(***************************************************************************)
(* Rational arithmetic                                                     *)
(***************************************************************************)
Abs(n) == IF n < 0 THEN -n ELSE n

RECURSIVE GCD(_, _)
GCD(a, b) == IF b = 0 THEN a ELSE GCD(b, a % b)

Rat(n, d) ==
    IF n = 0 THEN <<0, 1>>
    ELSE LET g == GCD(Abs(n), d)
             m == Abs(n) \div g
         IN  <<IF n < 0 THEN -m ELSE m, d \div g>>

Whole(n) == <<n, 1>>
RAdd(a, b) == Rat(a[1] * b[2] + b[1] * a[2], a[2] * b[2])
RSub(a, b) == Rat(a[1] * b[2] - b[1] * a[2], a[2] * b[2])
RMul(a, b) == Rat(a[1] * b[1], a[2] * b[2])
RDiv(a, b) == IF b[1] < 0 THEN Rat(-(a[1] * b[2]), a[2] * (-b[1]))
                          ELSE Rat(a[1] * b[2], a[2] * b[1])
RLt(a, b) == a[1] * b[2] < b[1] * a[2]
RLe(a, b) == a[1] * b[2] <= b[1] * a[2]
RAbs(a) == <<Abs(a[1]), a[2]>>
RMin(a, b) == IF RLe(a, b) THEN a ELSE b

\* int(x): truncation toward zero
Trunc(a) == IF a[1] >= 0 THEN a[1] \div a[2] ELSE -((-a[1]) \div a[2])
\* int(np.ceil(x))
Ceil(a) == IF a[1] >= 0 THEN (a[1] + a[2] - 1) \div a[2] ELSE -((-a[1]) \div a[2])

None == <<>>
Some(v) == <<v>>

(***************************************************************************)
(* numpy helpers                                                           *)
(***************************************************************************)
Min(a, b) == IF a <= b THEN a ELSE b
Max(a, b) == IF a >= b THEN a ELSE b

\* a[:n] for n >= 0
Head_(a, n) == SubSeq(a, 1, Min(n, Len(a)))
\* a[n:] for n >= 0
From_(a, n) == SubSeq(a, Min(n, Len(a)) + 1, Len(a))
\* a[-n:] for n >= 0; a[-0:] is the whole array
Tail_(a, n) == IF n = 0 THEN a ELSE SubSeq(a, Max(Len(a) - n, 0) + 1, Len(a))
\* a[:-n] for n >= 0; a[:-0] is empty
DropTail_(a, n) == IF n = 0 THEN <<>> ELSE SubSeq(a, 1, Max(Len(a) - n, 0))
\* a[n:-n] for n >= 0; a[0:-0] is empty
Middle_(a, n) == IF n = 0 THEN <<>> ELSE SubSeq(a, Min(n, Len(a)) + 1, Max(Len(a) - n, 0))

\* a function on 1..n as an array (a tuple, evaluated once)
Array(f) == <<>> \o f

\* shapes (n,) and (m,) broadcast iff n = m or one of them is 1
Broadcasts(a, b) == Len(a) = Len(b) \/ Len(a) = 1 \/ Len(b) = 1
BroadcastLen(a, b) == IF Len(a) = 1 THEN Len(b) ELSE IF Len(b) = 1 THEN Len(a) ELSE Len(a)
\* a * b and a + b, element-wise, defined when Broadcasts(a, b)
Times(a, b) ==
    LET la == Len(a)
        lb == Len(b)
    IN  Array([k \in 1..BroadcastLen(a, b) |->
                  RMul(IF la = 1 THEN a[1] ELSE a[k], IF lb = 1 THEN b[1] ELSE b[k])])
Plus(a, b) ==
    LET la == Len(a)
        lb == Len(b)
    IN  Array([k \in 1..BroadcastLen(a, b) |->
                  RAdd(IF la = 1 THEN a[1] ELSE a[k], IF lb = 1 THEN b[1] ELSE b[k])])

\* np.linspace(start, stop, n), start and stop in {0, 1}
linspace(start, stop, n) ==
    Array([k \in 1..n |-> IF n = 1 THEN Whole(start)
                          ELSE RAdd(Whole(start), Rat((stop - start) * (k - 1), n - 1))])

\* np.zeros(n)
zeros(n) == Array([k \in 1..n |-> Whole(0)])

(***************************************************************************)
(* Program constants (ElevenLabsSFXClient.__init__)                        *)
(***************************************************************************)
max_duration_per_request == 22
min_duration == 1
max_duration == 300
target_sample_rate == 48000
target_bit_depth == 24

(***************************************************************************)
(* _create_crossfade                                                       *)
(***************************************************************************)
crossfade_samples(crossfade_duration, sample_rate) ==
    Trunc(RMul(crossfade_duration, Whole(sample_rate)))

TooShortToFade(audio1, audio2, cs) == Len(audio1) < cs \/ Len(audio2) < cs

\* the element-wise products or the sum raise ValueError (shapes do not broadcast)
CrossfadeRaises(audio1, audio2, cs) ==
    /\ ~TooShortToFade(audio1, audio2, cs)
    /\ LET fade_out == linspace(1, 0, cs)
           fade_in == linspace(0, 1, cs)
       IN  \/ ~Broadcasts(Tail_(audio1, cs), fade_out)
           \/ ~Broadcasts(Head_(audio2, cs), fade_in)
           \/ /\ Broadcasts(Tail_(audio1, cs), fade_out)
              /\ Broadcasts(Head_(audio2, cs), fade_in)
              /\ ~Broadcasts(Times(Tail_(audio1, cs), fade_out),
                             Times(Head_(audio2, cs), fade_in))

\* faulty variant: the tail of audio1 is kept in front of the blended segment
_create_crossfade_KeepsTail(audio1, audio2, cs) ==
    IF TooShortToFade(audio1, audio2, cs)
    THEN audio1 \o audio2
    ELSE LET fade_out == linspace(1, 0, cs)
             fade_in == linspace(0, 1, cs)
             audio1_faded == Times(Tail_(audio1, cs), fade_out)
             audio2_faded == Times(Head_(audio2, cs), fade_in)
             crossfaded == Plus(audio1_faded, audio2_faded)
         IN  audio1 \o crossfaded \o From_(audio2, cs)
\* faulty variant: the two ramps are swapped
_create_crossfade_SwappedRamps(audio1, audio2, cs) ==
    IF TooShortToFade(audio1, audio2, cs)
    THEN audio1 \o audio2
    ELSE LET fade_out == linspace(1, 0, cs)
             fade_in == linspace(0, 1, cs)
             audio1_faded == Times(Tail_(audio1, cs), fade_in)
             audio2_faded == Times(Head_(audio2, cs), fade_out)
             crossfaded == Plus(audio1_faded, audio2_faded)
         IN  DropTail_(audio1, cs) \o crossfaded \o From_(audio2, cs)
\* faulty variant: the overlapping samples are added without the ramps
_create_crossfade_NoFade(audio1, audio2, cs) ==
    IF TooShortToFade(audio1, audio2, cs)
    THEN audio1 \o audio2
    ELSE LET crossfaded == Plus(Tail_(audio1, cs), Head_(audio2, cs))
         IN  DropTail_(audio1, cs) \o crossfaded \o From_(audio2, cs)
_create_crossfade(audio1, audio2, cs) ==
    IF TooShortToFade(audio1, audio2, cs)
    THEN audio1 \o audio2
    ELSE LET fade_out == linspace(1, 0, cs)
             fade_in == linspace(0, 1, cs)
             audio1_faded == Times(Tail_(audio1, cs), fade_out)
             audio2_faded == Times(Head_(audio2, cs), fade_in)
             crossfaded == Plus(audio1_faded, audio2_faded)
         IN  DropTail_(audio1, cs) \o crossfaded \o From_(audio2, cs)

(***************************************************************************)
(* _make_loopable                                                          *)
(***************************************************************************)
LoopableRaises(audio, cs) ==
    /\ ~(Len(audio) < cs * 2)
    /\ \/ ~Broadcasts(Head_(audio, cs), linspace(0, 1, cs))
       \/ ~Broadcasts(Tail_(audio, cs), linspace(1, 0, cs))
       \/ /\ Broadcasts(Head_(audio, cs), linspace(0, 1, cs))
          /\ Broadcasts(Tail_(audio, cs), linspace(1, 0, cs))
          /\ ~Broadcasts(Times(Head_(audio, cs), linspace(0, 1, cs)),
                         Times(Tail_(audio, cs), linspace(1, 0, cs)))

\* faulty variant: the guard of _create_crossfade, one crossfade instead of two
_make_loopable_SingleGuard(audio, cs) ==
    IF Len(audio) < cs
    THEN audio
    ELSE LET fade_out == linspace(1, 0, cs)
             fade_in == linspace(0, 1, cs)
             audio_start == Times(Head_(audio, cs), fade_in)
             audio_end == Times(Tail_(audio, cs), fade_out)
         IN  Plus(audio_start, audio_end) \o Middle_(audio, cs)
_make_loopable(audio, cs) ==
    IF Len(audio) < cs * 2
    THEN audio
    ELSE LET fade_out == linspace(1, 0, cs)
             fade_in == linspace(0, 1, cs)
             audio_start == Times(Head_(audio, cs), fade_in)
             audio_end == Times(Tail_(audio, cs), fade_out)
         IN  Plus(audio_start, audio_end) \o Middle_(audio, cs)

(***************************************************************************)
(* _stitch_tiles: tiles[1] is the code's tiles[0]; merge step i (the       *)
(* code's enumerate index i, 1..len(tiles)-1) joins the accumulated buffer *)
(* with the tile StitchOperandIndex names.                                 *)
(***************************************************************************)
StitchOperandIndex(n, i, loopable) ==
    IF loopable /\ i = n - 1 THEN 0 ELSE i

RECURSIVE StitchUpTo(_, _, _, _)
StitchUpTo(tiles, cs, loopable, i) ==
    IF i = 0
    THEN tiles[1]
    ELSE _create_crossfade(StitchUpTo(tiles, cs, loopable, i - 1),
                           tiles[StitchOperandIndex(Len(tiles), i, loopable) + 1],
                           cs)

RECURSIVE StitchRaisesUpTo(_, _, _, _)
StitchRaisesUpTo(tiles, cs, loopable, i) ==
    /\ i > 0
    /\ \/ StitchRaisesUpTo(tiles, cs, loopable, i - 1)
       \/ CrossfadeRaises(StitchUpTo(tiles, cs, loopable, i - 1),
                          tiles[StitchOperandIndex(Len(tiles), i, loopable) + 1],
                          cs)

StitchRaises(tiles, cs, loopable) ==
    Len(tiles) > 1 /\ StitchRaisesUpTo(tiles, cs, loopable, Len(tiles) - 1)

_stitch_tiles(tiles, cs, loopable) ==
    IF Len(tiles) = 0 THEN <<>>
    ELSE IF Len(tiles) = 1 THEN tiles[1]
    ELSE StitchUpTo(tiles, cs, loopable, Len(tiles) - 1)

\* the tile indices merged by the loop of _stitch_tiles, in order
StitchOperands(n, loopable) ==
    Array([i \in 1..(IF n > 1 THEN n - 1 ELSE 0) |-> StitchOperandIndex(n, i, loopable)])

(***************************************************************************)
(* _process_audio_tile.  A raw provider tile is [decodable, audio]: audio  *)
(* is what librosa.load and librosa.resample (external) make of the bytes  *)
(* at the target rate; librosa.util.normalize then divides by the peak     *)
(* (an all-zero buffer is left as it is).                                  *)
(***************************************************************************)
\* np.max(np.abs(audio))
Peak(audio) ==
    LET mags == {RAbs(audio[k]) : k \in 1..Len(audio)}
    IN  CHOOSE m \in mags : \A x \in mags : RLe(x, m)

normalize(audio) ==
    LET peak == Peak(audio)
    IN  IF peak = Whole(0) THEN audio
        ELSE Array([k \in 1..Len(audio) |-> RDiv(audio[k], peak)])

ProcessRaises(raw) == ~raw.decodable

_process_audio_tile(raw) == normalize(raw.audio)

(***************************************************************************)
(* _save_audio: the array and subtype handed to sf.write                   *)
(***************************************************************************)
_save_audio(audio, sample_rate, bit_depth) ==
    IF bit_depth = 16
    THEN [subtype |-> "PCM_16", samplerate |-> sample_rate,
          data |-> Array([k \in 1..Len(audio) |->
                             Whole(Trunc(RMul(audio[k], Whole(32767))))])]
    ELSE IF bit_depth = 24
    THEN [subtype |-> "PCM_24", samplerate |-> sample_rate,
          data |-> Array([k \in 1..Len(audio) |->
                             Whole(Trunc(RMul(audio[k], Whole(8388607))))])]
    ELSE [subtype |-> "FLOAT", samplerate |-> sample_rate, data |-> audio]

(***************************************************************************)
(* Requests and results                                                    *)
(***************************************************************************)
SFXGenerationRequest(prompt, duration, seed, loopable, crossfade_duration, sample_rate, bit_depth) ==
    [prompt |-> prompt, duration |-> duration, seed |-> seed, loopable |-> loopable,
     crossfade_duration |-> crossfade_duration, output_format |-> "wav",
     sample_rate |-> sample_rate, bit_depth |-> bit_depth]

default_sample_rate == 48000
default_bit_depth == 24

\* SFXGenerationResult(success=False, error_message=...)
\* faulty variant: the message is dropped
FailureResult_NoMessage(message) ==
    [success |-> FALSE, audio_data |-> None, file_path |-> None,
     duration |-> Whole(0), sample_rate |-> default_sample_rate,
     bit_depth |-> default_bit_depth, format |-> "wav", generation_time |-> 0,
     tiles_generated |-> 0, seed_used |-> None, error_message |-> None]
FailureResult(message) ==
    [success |-> FALSE, audio_data |-> None, file_path |-> None,
     duration |-> Whole(0), sample_rate |-> default_sample_rate,
     bit_depth |-> default_bit_depth, format |-> "wav", generation_time |-> 0,
     tiles_generated |-> 0, seed_used |-> None, error_message |-> Some(message)]

\* the md5 of the JSON of the hashed fields is modelled by the fields themselves
\* (injective); the file name adds the output format as its suffix
_generate_cache_key(request) ==
    [hash |-> <<request.prompt, request.duration, request.seed, request.loopable,
                request.crossfade_duration, request.sample_rate, request.bit_depth>>,
     suffix |-> request.output_format]

\* cache_file.with_suffix('.json')
MetadataFile(cache_key) == [hash |-> cache_key.hash, suffix |-> "json"]

(***************************************************************************)
(* Bounds and input sets                                                   *)
(***************************************************************************)
\* concurrent or successive generate_sfx calls in one behaviour
MaxCalls == 2
\* tiles the provider delivers in one behaviour (further calls only fail)
MaxProviderCalls == 3
\* clear_cache calls in one behaviour
MaxClears == 1

Calls == 1..MaxCalls

Durations == {Whole(1), Rat(5, 2), Whole(30), Whole(50)}
BoundaryDurations == {Rat(9, 10), Whole(300), Rat(3001, 10)}
Seeds == {None, Some(42)}
CrossfadeDurations == {Rat(1, 2), Whole(1), Whole(10)}
BitDepths == {16, 24, 32}

\* every valid duration with every seed, loop flag and crossfade; the boundary
\* durations, the empty prompt, the other bit depths and the output format
\* "flac" on one request each (soundfile takes the container from the
\* extension of the file; the encoded samples are modelled, not the container)
\* and 32 seconds, which two tiles of 16 samples fill exactly, with every
\* crossfade; loopable requests with a crossfade of 3 samples, whose ramp has
\* a weight strictly between 0 and 1
Requests ==
    {SFXGenerationRequest("rain", d, s, l, x, 1, 24) :
        d \in Durations, s \in Seeds, l \in BOOLEAN, x \in CrossfadeDurations}
    \cup {SFXGenerationRequest("rain", d, Some(42), FALSE, Whole(1), 1, 24) :
        d \in BoundaryDurations}
    \cup {SFXGenerationRequest("", d, Some(42), FALSE, Whole(1), 1, 24) :
        d \in {Rat(9, 10), Whole(1)}}
    \cup {SFXGenerationRequest("rain", Rat(5, 2), Some(42), l, Whole(1), 1, b) :
        l \in BOOLEAN, b \in BitDepths}
    \cup {[SFXGenerationRequest("rain", Whole(1), s, FALSE, Whole(1), 1, 24)
               EXCEPT !.output_format = "flac"] : s \in Seeds}
    \cup {SFXGenerationRequest("rain", Whole(32), Some(42), FALSE, x, 1, 24) :
        x \in CrossfadeDurations}
    \cup {SFXGenerationRequest("rain", d, Some(42), TRUE, Whole(3), 1, 24) :
        d \in {Whole(1), Whole(30)}}

\* what the provider can answer: undecodable bytes, or audio of 1 or 16 samples
\* (shorter than, or at least twice, every crossfade of the requests)
Garbage == [decodable |-> FALSE, audio |-> <<>>]
Tone1 == [decodable |-> TRUE, audio |-> <<Rat(-1, 2)>>]
Tone16 == [decodable |-> TRUE, audio |-> Array([k \in 1..16 |-> Rat(k - 8, 4)])]
ProviderTiles == {Garbage, Tone1, Tone16}

\* str(e) of what _generate_sfx_tile raises: the message of line 192 for a
\* status other than 200, the empty string for asyncio.TimeoutError
ProviderErrors == {"ElevenLabs API error 500", ""}

(***************************************************************************)
(* State                                                                   *)
(***************************************************************************)
VARIABLES
    pc,             \* per call: "idle", "awaiting" (suspended in _generate_sfx_tile),
                    \* "done", "cancelled"
    request,        \* per call: Optional request
    use_cache,      \* per call: the use_cache argument
    start_time,     \* per call: start_time
    payloads,       \* per call: the payloads posted to the provider, in order
    tiles,          \* per call: the list tiles filled by the generation loop
    loop_inputs,    \* per call: the buffers _make_loopable was called on, in order
    merged,         \* per call: the tile indices _stitch_tiles merged, in order
    final_audio,    \* per call: Optional buffer handed to _save_audio
    result,         \* per call: Optional SFXGenerationResult returned
    log,            \* per call: the stages and I/O performed, in order
    cache_dir,      \* the files of cache_dir: file name -> content
    provider,       \* the backend's answers to seeded payloads so far
    provider_calls, \* tiles delivered by the provider so far
    now,            \* datetime.now(), a logical clock
    temp_files,     \* the temporary files that exist
    cleared         \* the clear_cache calls: pattern and returned count, in order

call_vars == <<pc, request, use_cache, start_time, payloads, tiles, loop_inputs,
               merged, final_audio, result, log>>
vars == <<pc, request, use_cache, start_time, payloads, tiles, loop_inputs,
          merged, final_audio, result, log, cache_dir, provider, provider_calls,
          now, temp_files, cleared>>

Init ==
    /\ pc = [c \in Calls |-> "idle"]
    /\ request = [c \in Calls |-> None]
    /\ use_cache = [c \in Calls |-> FALSE]
    /\ start_time = [c \in Calls |-> 0]
    /\ payloads = [c \in Calls |-> <<>>]
    /\ tiles = [c \in Calls |-> <<>>]
    /\ loop_inputs = [c \in Calls |-> <<>>]
    /\ merged = [c \in Calls |-> <<>>]
    /\ final_audio = [c \in Calls |-> None]
    /\ result = [c \in Calls |-> None]
    /\ log = [c \in Calls |-> <<>>]
    /\ cache_dir = <<>>
    /\ provider = <<>>
    /\ provider_calls = 0
    /\ now = 0
    /\ temp_files = {}
    /\ cleared = <<>>

(***************************************************************************)
(* Cache store: _get_cached_result, _cache_result                          *)
(***************************************************************************)
\* the SFXGenerationResult that lines 117-128 set out to build from the files
CachedResult(cache_key) ==
    LET metadata == IF MetadataFile(cache_key) \in DOMAIN cache_dir
                    THEN Some(cache_dir[MetadataFile(cache_key)]) ELSE None
    IN  [success |-> TRUE,
         audio_data |-> Some(cache_dir[cache_key]),
         file_path |-> Some([kind |-> "cache", id |-> 0]),
         duration |-> IF metadata # None THEN metadata[1].duration ELSE Whole(0),
         sample_rate |-> IF metadata # None THEN metadata[1].sample_rate ELSE target_sample_rate,
         bit_depth |-> IF metadata # None THEN metadata[1].bit_depth ELSE target_bit_depth,
         format |-> cache_key.suffix,
         generation_time |-> IF metadata # None THEN metadata[1].generation_time ELSE 0,
         tiles_generated |-> IF metadata # None THEN metadata[1].tiles_generated ELSE 0,
         seed_used |-> IF metadata # None THEN metadata[1].seed_used ELSE None,
         error_message |-> None]

\* Line 124 evaluates request.output_format, and `request` is neither a
\* parameter nor a local nor a module global of _get_cached_result: the name
\* is unbound and building the result raises NameError.
FormatRaises == TRUE

\* lines 97-131: no file, no result; an exception while loading is logged by
\* the handler of line 129 and None is returned
_get_cached_result(cache_key) ==
    IF cache_key \notin DOMAIN cache_dir THEN None
    ELSE IF FormatRaises THEN None
    ELSE Some(CachedResult(cache_key))

CacheMetadata(res, cached_at) ==
    [duration |-> res.duration, sample_rate |-> res.sample_rate,
     bit_depth |-> res.bit_depth, generation_time |-> res.generation_time,
     tiles_generated |-> res.tiles_generated, seed_used |-> res.seed_used,
     cached_at |-> cached_at]

\* the files _cache_result wrote before an I/O error, if any
FilesWritten(written) ==
    IF written = "ok" THEN 2 ELSE IF written = "audio_only" THEN 1 ELSE 0

\* the files after _cache_result; written is how far the two writes got before
\* an I/O error (swallowed by the handler of line 158): "ok", "audio_only", "fail"
_cache_result(res, cache_key, cached_at, written) ==
    IF written = "fail" THEN cache_dir
    ELSE IF written = "audio_only" THEN (cache_key :> res.audio_data[1]) @@ cache_dir
    ELSE (cache_key :> res.audio_data[1])
         @@ (MetadataFile(cache_key) :> CacheMetadata(res, cached_at))
         @@ cache_dir

(***************************************************************************)
(* generate_sfx: validation, planning, pipeline                            *)
(***************************************************************************)
TooShort(req) == RLt(req.duration, Whole(min_duration))
\* faulty variant: >= instead of >
TooLong_Inclusive(req) == RLe(Whole(max_duration), req.duration)
TooLong(req) == RLt(Whole(max_duration), req.duration)

tiles_needed(req) == Ceil(RDiv(req.duration, Whole(max_duration_per_request)))
\* faulty variant: ceiling-sized chunks instead of an equal split
tile_duration_CeilingChunks(req) == RMin(req.duration, Whole(max_duration_per_request))
tile_duration(req) == RDiv(req.duration, Whole(tiles_needed(req)))
\* faulty variant: every tile gets the request seed
tile_seed_Same(req, i) == req.seed
\* faulty variant: the request seed is not passed on
tile_seed_Dropped(req, i) == None
tile_seed(req, i) == IF req.seed # None THEN Some(req.seed[1] + i) ELSE None

\* the payload _generate_sfx_tile posts
Payload(prompt, duration, seed) ==
    [text |-> prompt,
     duration |-> RMin(duration, Whole(max_duration_per_request)),
     seed |-> seed]

TilePayload(req, i) == Payload(req.prompt, tile_duration(req), tile_seed(req, i))

target_samples(req) == Trunc(RMul(req.duration, Whole(req.sample_rate)))

\* faulty variant: truncates, never pads
EnsureExactDuration_TruncateOnly(audio, target) ==
    IF Len(audio) > target THEN Head_(audio, target) ELSE audio
\* lines 391-397
EnsureExactDuration(audio, target) ==
    IF Len(audio) > target THEN Head_(audio, target)
    ELSE IF Len(audio) < target THEN audio \o zeros(target - Len(audio))
    ELSE audio

CS(req) == crossfade_samples(req.crossfade_duration, req.sample_rate)

\* lines 374-380: how many tiles the loop passes to _make_loopable, the last
\* of them raising when LoopStageRaises
LoopStageRaises(req, tl) ==
    req.loopable /\ \E k \in 1..Len(tl) : LoopableRaises(tl[k], CS(req))
LoopStageCalls(req, tl) ==
    IF ~req.loopable THEN 0
    ELSE IF LoopStageRaises(req, tl)
    THEN CHOOSE k \in 1..Len(tl) :
            /\ LoopableRaises(tl[k], CS(req))
            /\ \A j \in 1..(k - 1) : ~LoopableRaises(tl[j], CS(req))
    ELSE Len(tl)
LoopableTiles(req, tl) ==
    IF req.loopable
    THEN Array([k \in 1..Len(tl) |-> _make_loopable(tl[k], CS(req))])
    ELSE tl

\* lines 383-388: how many merge steps _stitch_tiles starts
StitchStageCalls(req, st) ==
    IF Len(st) <= 1 THEN 0
    ELSE IF StitchRaises(st, CS(req), req.loopable)
    THEN CHOOSE i \in 1..(Len(st) - 1) :
            /\ StitchRaisesUpTo(st, CS(req), req.loopable, i)
            /\ ~StitchRaisesUpTo(st, CS(req), req.loopable, i - 1)
    ELSE Len(st) - 1

\* lines 373-397 on the generated tiles tl: the stages run, and the buffer
\* handed to _save_audio unless a stage raised
Pipeline(req, tl) ==
    LET loops == LoopStageCalls(req, tl)
        loop_log == Array([k \in 1..loops |-> <<"loop", k - 1>>])
        loop_in == SubSeq(tl, 1, loops)
    IN  IF LoopStageRaises(req, tl)
        THEN [raised |-> TRUE, loop_inputs |-> loop_in, merged |-> <<>>,
              log |-> loop_log, final_audio |-> None]
        ELSE LET st == LoopableTiles(req, tl)
                 steps == StitchStageCalls(req, st)
                 ops == SubSeq(StitchOperands(Len(st), req.loopable), 1, steps)
                 stitch_log == <<<<"stitch", Len(st)>>>>
                               \o Array([i \in 1..steps |-> <<"crossfade", ops[i]>>])
             IN  IF StitchRaises(st, CS(req), req.loopable)
                 THEN [raised |-> TRUE, loop_inputs |-> loop_in, merged |-> ops,
                       log |-> loop_log \o stitch_log, final_audio |-> None]
                 ELSE [raised |-> FALSE, loop_inputs |-> loop_in, merged |-> ops,
                       log |-> loop_log \o stitch_log
                               \o <<<<"enforce", target_samples(req)>>>>,
                       final_audio |->
                           Some(EnsureExactDuration(
                                    _stitch_tiles(st, CS(req), req.loopable),
                                    target_samples(req)))]

\* lines 419-430
SuccessResult(req, audio_data, temp_file, generation_time) ==
    [success |-> TRUE, audio_data |-> Some(audio_data),
     file_path |-> Some([kind |-> "tmp", id |-> temp_file]),
     duration |-> req.duration, sample_rate |-> req.sample_rate,
     bit_depth |-> req.bit_depth, format |-> req.output_format,
     generation_time |-> generation_time, tiles_generated |-> tiles_needed(req),
     seed_used |-> req.seed, error_message |-> None]

(***************************************************************************)
(* Actions.  A call runs from its start to its first await, and from one   *)
(* await of _generate_sfx_tile to the next or to its return.               *)
(***************************************************************************)
Return(c, res, entries) ==
    /\ pc' = [pc EXCEPT ![c] = "done"]
    /\ result' = [result EXCEPT ![c] = Some(res)]
    /\ log' = [log EXCEPT ![c] = @ \o entries \o <<<<"return", 0>>>>]

\* lines 324-365: validation, cache lookup, planning, the post of tile 0
generate_sfx(c, req, uc) ==
    /\ pc[c] = "idle"
    /\ request' = [request EXCEPT ![c] = Some(req)]
    /\ use_cache' = [use_cache EXCEPT ![c] = uc]
    /\ start_time' = [start_time EXCEPT ![c] = now]
    /\ now' = now + 1
    /\ UNCHANGED <<tiles, loop_inputs, merged, final_audio, cache_dir, provider,
                   provider_calls, temp_files, cleared>>
    /\ IF TooShort(req)
       THEN /\ Return(c, FailureResult("Duration must be at least 1.0 seconds"),
                      <<<<"validate", 0>>>>)
            /\ UNCHANGED payloads
       ELSE IF TooLong(req)
       THEN /\ Return(c, FailureResult("Duration cannot exceed 300.0 seconds"),
                      <<<<"validate", 0>>>>)
            /\ UNCHANGED payloads
       ELSE IF uc /\ _get_cached_result(_generate_cache_key(req)) # None
       THEN /\ Return(c, _get_cached_result(_generate_cache_key(req))[1],
                      <<<<"validate", 0>>, <<"cache_get", 1>>>>)
            /\ UNCHANGED payloads
       ELSE /\ pc' = [pc EXCEPT ![c] = "awaiting"]
            /\ payloads' = [payloads EXCEPT ![c] = <<TilePayload(req, 0)>>]
            /\ log' = [log EXCEPT ![c] =
                  <<<<"validate", 0>>>>
                  \o (IF uc
                      THEN <<<<"cache_get",
                               IF _generate_cache_key(req) \in DOMAIN cache_dir
                               THEN 1 ELSE 0>>>>
                      ELSE <<>>)
                  \o <<<<"plan", tiles_needed(req)>>, <<"provider", 0>>>>]
            /\ UNCHANGED result

\* faulty variant: the handler re-raises, the call ends without a result
Abort_Reraises(c, message, entries) ==
    /\ pc' = [pc EXCEPT ![c] = "done"]
    /\ log' = [log EXCEPT ![c] = @ \o entries]
    /\ UNCHANGED <<result, request, use_cache, start_time, payloads, cache_dir, now>>
\* lines 439-444 after an exception of the generation loop or of the pipeline
Abort(c, message, entries) ==
    /\ Return(c, FailureResult(message), entries)
    /\ UNCHANGED <<request, use_cache, start_time, payloads, cache_dir, now>>

\* faulty variant: an I/O error of the cache write is not swallowed
Finish_CacheWriteRaises(c, req, p, entries) ==
    LET t == now + 1
        res == SuccessResult(req,
                  _save_audio(p.final_audio[1], req.sample_rate, req.bit_depth),
                  c, t - start_time[c])
        saved == entries \o <<<<"save", req.bit_depth>>>>
    IN  /\ UNCHANGED <<request, use_cache, start_time, payloads, temp_files>>
        /\ now' = t
        /\ IF use_cache[c]
           THEN \E written \in {"ok", "audio_only", "fail"} :
                   /\ Return(c, IF written = "ok" THEN res
                                ELSE FailureResult("No space left on device"),
                             saved \o <<<<"cache_put", FilesWritten(written)>>>>)
                   /\ cache_dir' = _cache_result(res, _generate_cache_key(req),
                                                 t, written)
           ELSE /\ Return(c, res, saved)
                /\ UNCHANGED cache_dir
\* faulty variant: the result is not stored when the entry already exists
Finish_SkipsExisting(c, req, p, entries) ==
    LET t == now + 1
        res == SuccessResult(req,
                  _save_audio(p.final_audio[1], req.sample_rate, req.bit_depth),
                  c, t - start_time[c])
        saved == entries \o <<<<"save", req.bit_depth>>>>
    IN  \E save_ok \in BOOLEAN :
           IF ~save_ok
           THEN /\ Abort(c, "Error opening file", saved)
                /\ temp_files' = temp_files \cup {c}
           ELSE /\ UNCHANGED <<request, use_cache, start_time, payloads, temp_files>>
                /\ now' = t
                /\ IF use_cache[c] /\ _generate_cache_key(req) \notin DOMAIN cache_dir
                   THEN \E written \in {"ok", "audio_only", "fail"} :
                           /\ Return(c, res, saved \o <<<<"cache_put", FilesWritten(written)>>>>)
                           /\ cache_dir' = _cache_result(res, _generate_cache_key(req),
                                                         t, written)
                   ELSE /\ Return(c, res, saved)
                        /\ UNCHANGED cache_dir
\* faulty variant: the result is stored whatever use_cache says
Finish_AlwaysCaches(c, req, p, entries) ==
    LET t == now + 1
        res == SuccessResult(req,
                  _save_audio(p.final_audio[1], req.sample_rate, req.bit_depth),
                  c, t - start_time[c])
        saved == entries \o <<<<"save", req.bit_depth>>>>
    IN  \E save_ok \in BOOLEAN :
           IF ~save_ok
           THEN /\ Abort(c, "Error opening file", saved)
                /\ temp_files' = temp_files \cup {c}
           ELSE /\ UNCHANGED <<request, use_cache, start_time, payloads, temp_files>>
                /\ now' = t
                /\ \E written \in {"ok", "audio_only", "fail"} :
                      /\ Return(c, res, IF use_cache[c]
                                        THEN saved \o <<<<"cache_put", FilesWritten(written)>>>>
                                        ELSE saved)
                      /\ cache_dir' = _cache_result(res, _generate_cache_key(req),
                                                    t, written)
\* faulty variant: the cache entry is written before the encoding is known to succeed
Finish_CachesFirst(c, req, p, entries) ==
    LET t == now + 1
        res == SuccessResult(req,
                  _save_audio(p.final_audio[1], req.sample_rate, req.bit_depth),
                  c, t - start_time[c])
        saved == entries \o <<<<"save", req.bit_depth>>>>
    IN  /\ cache_dir' = IF use_cache[c]
                        THEN _cache_result(res, _generate_cache_key(req), t, "ok")
                        ELSE cache_dir
        /\ \E save_ok \in BOOLEAN :
              IF ~save_ok
              THEN /\ Return(c, FailureResult("Error opening file"), saved)
                   /\ temp_files' = temp_files \cup {c}
                   /\ UNCHANGED <<request, use_cache, start_time, payloads, now>>
              ELSE /\ Return(c, res, saved)
                   /\ now' = t
                   /\ UNCHANGED <<request, use_cache, start_time, payloads, temp_files>>
\* lines 399-437 on the buffer of the pipeline: the encoding, the result, the
\* cache write; save_ok is whether sf.write and the file system went through
Finish(c, req, p, entries) ==
    LET t == now + 1
        res == SuccessResult(req,
                  _save_audio(p.final_audio[1], req.sample_rate, req.bit_depth),
                  c, t - start_time[c])
        saved == entries \o <<<<"save", req.bit_depth>>>>
    IN  \E save_ok \in BOOLEAN :
           IF ~save_ok
           THEN /\ Abort(c, "Error opening file", saved)
                /\ temp_files' = temp_files \cup {c}
           ELSE /\ UNCHANGED <<request, use_cache, start_time, payloads, temp_files>>
                /\ now' = t
                /\ IF use_cache[c]
                   THEN \E written \in {"ok", "audio_only", "fail"} :
                           /\ Return(c, res, saved \o <<<<"cache_put", FilesWritten(written)>>>>)
                           /\ cache_dir' = _cache_result(res, _generate_cache_key(req),
                                                         t, written)
                   ELSE /\ Return(c, res, saved)
                        /\ UNCHANGED cache_dir

\* the provider answers the pending post with bytes: lines 361-437
ProviderReturns(c, raw) ==
    LET req == request[c][1]
        i == Len(tiles[c])
        posted == payloads[c][Len(payloads[c])]
    IN  /\ pc[c] = "awaiting"
        /\ provider_calls < MaxProviderCalls
        /\ posted.seed # None /\ posted \in DOMAIN provider => raw = provider[posted]
        /\ provider' = IF posted.seed # None THEN (posted :> raw) @@ provider
                                             ELSE provider
        /\ provider_calls' = provider_calls + 1
        /\ UNCHANGED cleared
        /\ IF ProcessRaises(raw)
           THEN /\ Abort(c, "could not decode audio",
                         <<<<"process", i>>, <<"tile_error", i>>>>)
                /\ UNCHANGED <<tiles, loop_inputs, merged, final_audio, temp_files>>
           ELSE LET tl == Append(tiles[c], _process_audio_tile(raw))
                IN  /\ tiles' = [tiles EXCEPT ![c] = tl]
                    /\ IF Len(tl) < tiles_needed(req)
                       THEN /\ payloads' = [payloads EXCEPT ![c] =
                                               Append(@, TilePayload(req, i + 1))]
                            /\ log' = [log EXCEPT ![c] =
                                  @ \o <<<<"process", i>>, <<"provider", i + 1>>>>]
                            /\ UNCHANGED <<pc, request, use_cache, start_time,
                                           loop_inputs, merged, final_audio, result,
                                           cache_dir, now, temp_files>>
                       ELSE LET p == Pipeline(req, tl)
                            IN  /\ loop_inputs' = [loop_inputs EXCEPT ![c] = p.loop_inputs]
                                /\ merged' = [merged EXCEPT ![c] = p.merged]
                                /\ final_audio' = [final_audio EXCEPT ![c] = p.final_audio]
                                /\ IF p.raised
                                   THEN /\ Abort(c, "operands could not be broadcast together",
                                                 <<<<"process", i>>>> \o p.log)
                                        /\ UNCHANGED temp_files
                                   ELSE Finish(c, req, p, <<<<"process", i>>>> \o p.log)

\* faulty variant: a failed tile is replaced by silence and the loop goes on
ProviderFails_FillsGap(c) ==
    /\ pc[c] = "awaiting"
    /\ Len(tiles[c]) + 1 < tiles_needed(request[c][1])
    /\ tiles' = [tiles EXCEPT ![c] = Append(@, zeros(1))]
    /\ payloads' = [payloads EXCEPT ![c] =
                       Append(@, TilePayload(request[c][1], Len(tiles[c]) + 1))]
    /\ log' = [log EXCEPT ![c] = @ \o <<<<"tile_error", Len(tiles[c])>>,
                                        <<"provider", Len(tiles[c]) + 1>>>>]
    /\ UNCHANGED <<pc, request, use_cache, start_time, loop_inputs, merged,
                   final_audio, result, cache_dir, provider, provider_calls, now,
                   temp_files, cleared>>
\* faulty variant: a failed tile is posted again
ProviderFails_Retries(c) ==
    /\ pc[c] = "awaiting"
    /\ payloads' = [payloads EXCEPT ![c] =
                       Append(@, TilePayload(request[c][1], Len(tiles[c])))]
    /\ log' = [log EXCEPT ![c] = @ \o <<<<"tile_error", Len(tiles[c])>>,
                                        <<"provider", Len(tiles[c])>>>>]
    /\ UNCHANGED <<pc, request, use_cache, start_time, tiles, loop_inputs, merged,
                   final_audio, result, cache_dir, provider, provider_calls, now,
                   temp_files, cleared>>
\* the provider answers the pending post with an error or a timeout: lines
\* 191-196, the exception leaving the loop of lines 355-371
ProviderFails(c) ==
    /\ pc[c] = "awaiting"
    /\ \E message \in ProviderErrors :
          Abort(c, message, <<<<"tile_error", Len(tiles[c])>>>>)
    /\ UNCHANGED <<tiles, loop_inputs, merged, final_audio, provider, provider_calls,
                   temp_files, cleared>>

\* a pattern is "*" (star) or a literal hash
Star == [star |-> TRUE, hash |-> <<>>]
Literal(hash) == [star |-> FALSE, hash |-> hash]

\* the cache files the glob of line 449 yields for a pattern
Globbed(pattern) ==
    {f \in DOMAIN cache_dir :
        f.suffix = "wav" /\ (pattern.star \/ pattern.hash = f.hash)}

\* the patterns a caller passes: all, the hash of a file of cache_dir, a hash
\* of no file
Patterns == {Star, Literal(<<>>)} \cup {Literal(f.hash) : f \in DOMAIN cache_dir}

\* lines 446-460, called while no generate_sfx call is suspended
clear_cache(pattern) ==
    /\ Len(cleared) < MaxClears
    /\ \A c \in Calls : pc[c] # "awaiting"
    /\ LET gone == Globbed(pattern) \cup {MetadataFile(f) : f \in Globbed(pattern)}
           rest == DOMAIN cache_dir \ gone
       IN  cache_dir' = IF rest = {} THEN <<>> ELSE [f \in rest |-> cache_dir[f]]
    /\ cleared' = Append(cleared, [pattern |-> pattern,
                                   cleared_count |-> Cardinality(Globbed(pattern))])
    /\ UNCHANGED <<call_vars, provider, provider_calls, now, temp_files>>

\* The caller: calls are made one after the other, and a behaviour repeats
\* the request of its first call (with either use_cache).
Admissible ==
    IF \A d \in Calls : request[d] = None
    THEN Requests
    ELSE {request[d][1] : d \in {e \in Calls : request[e] # None}}

Call(c) ==
    /\ pc[c] = "idle"
    /\ \A d \in Calls : d < c => pc[d] = "done"
    /\ \E req \in Admissible, uc \in BOOLEAN : generate_sfx(c, req, uc)

Next ==
    \/ \E c \in Calls : Call(c)
    \/ \E c \in Calls, raw \in ProviderTiles : ProviderReturns(c, raw)
    \/ \E c \in Calls : ProviderFails(c)
    \/ \E pattern \in Patterns : clear_cache(pattern)

Spec == Init /\ [][Next]_vars

(***************************************************************************)
(* Overlapping calls.  generate_sfx is a coroutine of a client that holds  *)
(* no lock: a second call can start while the first is suspended in        *)
(* _generate_sfx_tile, and the task running a call can be cancelled while  *)
(* it is suspended there.                                                  *)
(***************************************************************************)
\* one- and two-tile requests, seeded or not
ConcurrentRequests ==
    {SFXGenerationRequest("rain", d, s, FALSE, Whole(1), 1, 24) :
        d \in {Whole(1), Whole(30)}, s \in Seeds}

\* the later call repeats the request of the first
ConcurrentAdmissible ==
    IF \A d \in Calls : request[d] = None
    THEN ConcurrentRequests
    ELSE {request[d][1] : d \in {e \in Calls : request[e] # None}}

\* a call starts whether or not the earlier calls have returned
CallConcurrently(c) ==
    /\ pc[c] = "idle"
    /\ \A d \in Calls : d < c => pc[d] # "idle"
    /\ \E req \in ConcurrentAdmissible, uc \in BOOLEAN : generate_sfx(c, req, uc)

\* faulty variant: the tiles generated so far are stored when the call is cancelled
Cancel_StoresPartial(c) ==
    /\ pc[c] = "awaiting"
    /\ pc' = [pc EXCEPT ![c] = "cancelled"]
    /\ log' = [log EXCEPT ![c] = @ \o <<<<"cancelled", Len(tiles[c])>>>>]
    /\ cache_dir' = _cache_result(SuccessResult(request[c][1], tiles[c], c, 0),
                                  _generate_cache_key(request[c][1]), now, "ok")
    /\ UNCHANGED <<result, request, use_cache, start_time, payloads, now, tiles,
                   loop_inputs, merged, final_audio, provider, provider_calls,
                   temp_files, cleared>>
\* asyncio.CancelledError is thrown into the call at the await of line 361.
\* Where it derives from BaseException (Python 3.8 and later) neither handler
\* catches it and the call ends without a result; where it derives from
\* Exception (Python 3.7) the handler of lines 439-444 turns it into a failure
\* result with the empty message.
Cancel(c) ==
    /\ pc[c] = "awaiting"
    /\ \E caught \in BOOLEAN :
          IF caught
          THEN Abort(c, "", <<<<"cancelled", Len(tiles[c])>>>>)
          ELSE /\ pc' = [pc EXCEPT ![c] = "cancelled"]
               /\ log' = [log EXCEPT ![c] = @ \o <<<<"cancelled", Len(tiles[c])>>>>]
               /\ UNCHANGED <<result, request, use_cache, start_time, payloads,
                              cache_dir, now>>
    /\ UNCHANGED <<tiles, loop_inputs, merged, final_audio, provider, provider_calls,
                   temp_files, cleared>>

NextConcurrent ==
    \/ \E c \in Calls : CallConcurrently(c)
    \/ \E c \in Calls, raw \in ProviderTiles : ProviderReturns(c, raw)
    \/ \E c \in Calls : ProviderFails(c)
    \/ \E c \in Calls : Cancel(c)

SpecConcurrent == Init /\ [][NextConcurrent]_vars

(***************************************************************************)
(* What a caller and an observer of the I/O see of a call                  *)
(***************************************************************************)
Done(c) == pc[c] = "done"
Req(c) == request[c][1]
Res(c) == result[c][1]
Succeeded(c) == Done(c) /\ result[c] # None /\ Res(c).success
Failed(c) == Done(c) /\ result[c] # None /\ ~Res(c).success
Logged(c, entry) == \E k \in DOMAIN log[c] : log[c][k] = entry
Returns(c) == pc[c] # "done" /\ pc'[c] = "done"
\* a step that creates or rewrites a file of cache_dir
Written ==
    \E f \in DOMAIN cache_dir' : f \notin DOMAIN cache_dir \/ cache_dir'[f] # cache_dir[f]

(***************************************************************************)
(* Properties                                                              *)
(***************************************************************************)

\* C1: every successful call hands the encoder a buffer, and returns audio,
\* of exactly n samples where n <= duration * sample_rate < n + 1, whatever
\* the lengths of the tiles the provider delivered.
C1_DurationExact ==
    \A c \in Calls : Succeeded(c) =>
        LET n == Len(Res(c).audio_data[1].data)
            want == RMul(Req(c).duration, Whole(Req(c).sample_rate))
        IN  /\ final_audio[c] # None
            /\ Len(final_audio[c][1]) = n
            /\ RLe(Whole(n), want)
            /\ RLt(want, Whole(n + 1))

\* a successful two-tile call whose tiles together are shorter than the target
C1_Padded ==
    \E c \in Calls :
        /\ Succeeded(c)
        /\ Len(tiles[c]) = 2
        /\ Len(tiles[c][1]) + Len(tiles[c][2]) < Len(final_audio[c][1])

\* C2: of two calls in sequence with the same request and use_cache = TRUE,
\* the first starting from a cold cache, succeeding and leaving its entry in
\* the cache, the second posts nothing to the provider.
C2_CacheIdempotence ==
    \A c, d \in Calls :
        (/\ c < d
         /\ Succeeded(c) /\ use_cache[c] /\ Logged(c, <<"cache_get", 0>>)
         /\ MetadataFile(_generate_cache_key(Req(c))) \in DOMAIN cache_dir
         /\ pc[d] # "idle" /\ use_cache[d] /\ request[d] = request[c])
        => payloads[d] = <<>>

\* C3: once tile i of a call has failed (provider error, timeout, undecodable
\* bytes), the call has posted tiles 0..i only, posts nothing more, and has
\* returned success = FALSE.
C3_FailFast ==
    \A c \in Calls : \A k \in DOMAIN log[c] :
        log[c][k][1] = "tile_error" =>
            /\ Len(payloads[c]) = log[c][k][2] + 1
            /\ \A m \in DOMAIN log[c] : m > k => log[c][m][1] # "provider"
            /\ Failed(c)

\* a three-tile call whose second tile failed
C3_MiddleTileFailed ==
    \E c \in Calls :
        /\ Failed(c)
        /\ tiles_needed(Req(c)) = 3
        /\ Logged(c, <<"tile_error", 1>>)

\* C4: a step in which a call returns success = FALSE leaves the cache store
\* as it is, and a cache file is written only in a step in which a call
\* returns success = TRUE.
C4_FailureLeavesCache ==
    [][/\ \A c \in Calls :
             (Returns(c) /\ result'[c] # None /\ ~result'[c][1].success)
             => cache_dir' = cache_dir
       /\ Written =>
             \E c \in Calls :
                 Returns(c) /\ result'[c] # None /\ result'[c][1].success]_vars

\* a call failed at the encoder after an earlier call had filled the cache
C4_FailedOverFilledCache ==
    \E c, d \in Calls :
        /\ c < d
        /\ Succeeded(c)
        /\ cache_dir # <<>>
        /\ Failed(d)
        /\ Logged(d, <<"save", Req(d).bit_depth>>)

\* C5: a call whose duration is below 1.0 or above 300.0 returns
\* success = FALSE having done nothing but validate (no cache read, no post,
\* no cache write); a call whose duration is exactly 1.0 or 300.0 is not
\* rejected by the validation.
C5_DurationBounds ==
    \A c \in Calls : request[c] # None =>
        /\ (RLt(Req(c).duration, Whole(1)) \/ RLt(Whole(300), Req(c).duration))
           => /\ Failed(c)
              /\ payloads[c] = <<>>
              /\ log[c] = <<<<"validate", 0>>, <<"return", 0>>>>
        /\ Req(c).duration \in {Whole(1), Whole(300)}
           => log[c][2] # <<"return", 0>>

\* a call of 300.1 seconds was rejected
C5_TooLongRejected ==
    \E c \in Calls :
        /\ request[c] # None
        /\ RLt(Whole(300), Req(c).duration)
        /\ Failed(c)

\* C6: a call with an empty prompt posts nothing to the provider and returns
\* success = FALSE.
C6_EmptyPromptRejected ==
    \A c \in Calls : (request[c] # None /\ Req(c).prompt = "") =>
        /\ payloads[c] = <<>>
        /\ Done(c) => Failed(c)

\* C7: a call that is over has returned a result; the result of a call in
\* which a tile failed, a stage raised or the encoder failed has
\* success = FALSE, an error message and no audio.
C7_FailuresAreResults ==
    \A c \in Calls : Done(c) =>
        /\ result[c] # None
        /\ ~Res(c).success =>
              Res(c).error_message # None /\ Res(c).audio_data = None
        /\ Res(c).success =>
              /\ final_audio[c] # None
              /\ \A k \in DOMAIN log[c] : log[c][k][1] # "tile_error"

\* a call whose encoding failed has returned the failure
C7_EncodeFailureReturned ==
    \E c \in Calls :
        /\ Failed(c)
        /\ final_audio[c] # None
        /\ Res(c).error_message = Some("Error opening file")

\* C8: two successful calls with the same request, its seed given, neither
\* of them finding a cache file, return the same audio.
C8_Determinism ==
    \A c, d \in Calls :
        (/\ c < d
         /\ Succeeded(c) /\ Succeeded(d)
         /\ request[c] = request[d]
         /\ Req(c).seed # None
         /\ ~Logged(c, <<"cache_get", 1>>) /\ ~Logged(d, <<"cache_get", 1>>))
        => Res(c).audio_data = Res(d).audio_data

\* two successful seeded calls with the same request
C8_TwoSeededCalls ==
    \E c, d \in Calls :
        /\ c < d
        /\ Succeeded(c) /\ Succeeded(d)
        /\ request[c] = request[d]
        /\ Req(c).seed # None
        /\ ~Logged(c, <<"cache_get", 1>>) /\ ~Logged(d, <<"cache_get", 1>>)

\* C9: a call that stitched its N tiles merged tile 1, ..., tile N-1 in this
\* order onto tile 0, each once.
C9_MergeOrder ==
    \A c \in Calls : final_audio[c] # None =>
        merged[c] = [k \in 1..(Len(tiles[c]) - 1) |-> k]

\* C10: _make_loopable runs only for a loopable request, and a loopable call
\* that reached the enforcement ran it once, on the buffer stitched from all
\* the tiles.
C10_LoopOnceOnStitched ==
    \A c \in Calls :
        /\ loop_inputs[c] # <<>> => Req(c).loopable
        /\ (final_audio[c] # None /\ Req(c).loopable) =>
              /\ Len(loop_inputs[c]) = 1
              /\ ~StitchRaises(tiles[c], CS(Req(c)), FALSE) =>
                    loop_inputs[c][1] = _stitch_tiles(tiles[c], CS(Req(c)), FALSE)

\* C11: a planned call of duration d plans N tiles with 22 * (N - 1) < d
\* <= 22 * N, that is N = ceil(d / 22); every payload it posts asks for
\* d / N seconds, which is at most 22 and N times which is d; d <= 22 plans
\* one tile and d = 50 plans three.
C11_TilePlan ==
    \A c \in Calls : \A k \in DOMAIN log[c] :
        log[c][k][1] = "plan" =>
            LET N == log[c][k][2]
                d == Req(c).duration
            IN  /\ N >= 1
                /\ RLt(Whole(22 * (N - 1)), d) /\ RLe(d, Whole(22 * N))
                /\ Len(payloads[c]) <= N
                /\ \A j \in DOMAIN payloads[c] :
                      /\ RMul(payloads[c][j].duration, Whole(N)) = d
                      /\ RLe(payloads[c][j].duration, Whole(22))
                /\ RLe(d, Whole(22)) => N = 1
                /\ d = Whole(50) => N = 3

\* a call of 50 seconds has posted its three tiles
C11_FiftySecondsPosted ==
    \E c \in Calls :
        /\ request[c] # None
        /\ Req(c).duration = Whole(50)
        /\ Len(payloads[c]) = 3

\* C12: the payload posted for tile i carries the seed request.seed + i when
\* the request has a seed, so the seeds of a call are pairwise distinct, and
\* carries no seed when the request has none.
C12_TileSeeds ==
    \A c \in Calls : \A j \in DOMAIN payloads[c] :
        IF Req(c).seed # None
        THEN /\ payloads[c][j].seed = Some(Req(c).seed[1] + (j - 1))
             /\ \A i \in DOMAIN payloads[c] :
                   i # j => payloads[c][i].seed # payloads[c][j].seed
        ELSE payloads[c][j].seed = None

\* a seeded call has posted three tiles
C12_SeededThreeTiles ==
    \E c \in Calls :
        /\ request[c] # None
        /\ Req(c).seed # None
        /\ Len(payloads[c]) = 3

\* the tile indices a call posted to the provider, in the order of the posts
Posted(c) == SelectSeq(log[c], LAMBDA e : e[1] = "provider")

\* C13: a call posts tile 0, tile 1, ... in this order, each at most once;
\* a successful call has posted exactly its N tiles and reports
\* tiles_generated = N.
C13_ProviderOrder ==
    \A c \in Calls :
        /\ Len(Posted(c)) = Len(payloads[c])
        /\ \A j \in DOMAIN payloads[c] :
              /\ Posted(c)[j][2] = j - 1
              /\ payloads[c][j] = TilePayload(Req(c), j - 1)
        /\ Succeeded(c) =>
              /\ Len(payloads[c]) = tiles_needed(Req(c))
              /\ Res(c).tiles_generated = tiles_needed(Req(c))

\* a three-tile call succeeded
C13_ThreeTilesSucceeded ==
    \E c \in Calls : Succeeded(c) /\ tiles_needed(Req(c)) = 3

\* C14: in a call that stitched its tiles in order (not loopable), every
\* merge step whose two adjacent tiles include one with fewer samples than
\* the crossfade is a plain concatenation: the buffer grows by exactly the
\* length of the tile merged.
C14_ShortTilePlainConcat ==
    \A c \in Calls : (final_audio[c] # None /\ ~Req(c).loopable) =>
        \A i \in 1..(Len(tiles[c]) - 1) :
            (Len(tiles[c][i]) < CS(Req(c)) \/ Len(tiles[c][i + 1]) < CS(Req(c))) =>
                Len(StitchUpTo(tiles[c], CS(Req(c)), FALSE, i))
                    = Len(StitchUpTo(tiles[c], CS(Req(c)), FALSE, i - 1))
                      + Len(tiles[c][i + 1])

\* C15: _make_loopable returns a buffer with fewer than 2 * crossfade_samples
\* samples as it is: same length, same samples.
C15_LoopTooShortNoOp ==
    \A c \in Calls : \A k \in DOMAIN loop_inputs[c] :
        Len(loop_inputs[c][k]) < 2 * CS(Req(c)) =>
            _make_loopable(loop_inputs[c][k], CS(Req(c))) = loop_inputs[c][k]

\* _make_loopable was called on a buffer at least as long as the crossfade
\* and shorter than twice the crossfade
C15_BetweenOneAndTwoCrossfades ==
    \E c \in Calls : \E k \in DOMAIN loop_inputs[c] :
        /\ CS(Req(c)) <= Len(loop_inputs[c][k])
        /\ Len(loop_inputs[c][k]) < 2 * CS(Req(c))
        /\ final_audio[c] # None

\* a step that is a clear_cache call
Clears == Len(cleared') = Len(cleared) + 1

\* C16: a step that is not a clear_cache call leaves every file of the cache
\* store in place with the content it has.
C16_EntryNeverChanged ==
    [][~Clears =>
          \A f \in DOMAIN cache_dir :
              f \in DOMAIN cache_dir' /\ cache_dir'[f] = cache_dir[f]]_vars

\* C17: for every key stored with its metadata, _get_cached_result returns a
\* result with success = TRUE and the stored audio, duration, sample rate,
\* bit depth, tiles_generated and seed_used; for the key of a request that
\* is not stored it returns None.
C17_CacheRoundTrip ==
    /\ \A f \in DOMAIN cache_dir :
          (f.suffix # "json" /\ MetadataFile(f) \in DOMAIN cache_dir) =>
              LET got == _get_cached_result(f)
                  metadata == cache_dir[MetadataFile(f)]
              IN  /\ got # None
                  /\ got[1].success
                  /\ got[1].audio_data = Some(cache_dir[f])
                  /\ got[1].duration = metadata.duration
                  /\ got[1].sample_rate = metadata.sample_rate
                  /\ got[1].bit_depth = metadata.bit_depth
                  /\ got[1].tiles_generated = metadata.tiles_generated
                  /\ got[1].seed_used = metadata.seed_used
    /\ \A c \in Calls :
          (request[c] # None /\ _generate_cache_key(Req(c)) \notin DOMAIN cache_dir)
          => _get_cached_result(_generate_cache_key(Req(c))) = None

C19_ResultShape ==
    \A c \in Calls : (Done(c) /\ result[c] # None) =>
        /\ Res(c).audio_data # None <=> Res(c).success
        /\ Res(c).error_message # None <=> ~Res(c).success

\* a call returned a failure and a call returned audio
C19_BothKindsReturned ==
    \E c, d \in Calls :
        /\ Done(c) /\ result[c] # None /\ Res(c).success
        /\ Done(d) /\ result[d] # None /\ ~Res(d).success

\* C20: a clear_cache step removes the audio and the metadata of every key
\* the pattern matches, leaves every other entry as it is, returns the
\* number of entries it removed, and with the pattern "*" leaves the store
\* empty.
C20_ClearRemovesMatching ==
    [][Clears =>
          LET call == cleared'[Len(cleared')]
              matching == {f \in DOMAIN cache_dir :
                              /\ f.suffix = "wav"
                              /\ call.pattern.star \/ call.pattern.hash = f.hash}
          IN  /\ \A f \in matching :
                    f \notin DOMAIN cache_dir' /\ MetadataFile(f) \notin DOMAIN cache_dir'
              /\ \A f \in DOMAIN cache_dir :
                    (f.hash \notin {g.hash : g \in matching}) =>
                        f \in DOMAIN cache_dir' /\ cache_dir'[f] = cache_dir[f]
              /\ call.cleared_count = Cardinality(matching)
              /\ call.pattern.star => cache_dir' = <<>>]_vars

\* the list generate_sfx passes to _stitch_tiles, the buffer before merge
\* step i and the tile merge step i joins to it
StitchInput(c) == LoopableTiles(Req(c), tiles[c])
Accumulated(c, i) == StitchUpTo(StitchInput(c), CS(Req(c)), Req(c).loopable, i - 1)
Operand(c, i) ==
    StitchInput(c)[StitchOperandIndex(Len(tiles[c]), i, Req(c).loopable) + 1]
MergeResult(c, i) == StitchUpTo(StitchInput(c), CS(Req(c)), Req(c).loopable, i)
Stitched(c) == final_audio[c] # None /\ Len(tiles[c]) >= 2

C22_CrossfadeShape ==
    \A c \in Calls : Stitched(c) =>
        \A i \in 1..(Len(tiles[c]) - 1) :
            LET A == Accumulated(c, i)
                B == Operand(c, i)
                out == MergeResult(c, i)
                cs == CS(Req(c))
                keep == Len(A) - cs
            IN  (cs > 0 /\ Len(A) >= cs /\ Len(B) >= cs) =>
                    /\ Len(out) = Len(A) + Len(B) - cs
                    /\ \A k \in 1..keep : out[k] = A[k]
                    /\ \A k \in 1..cs :
                          LET w == IF cs = 1 THEN Whole(0) ELSE Rat(k - 1, cs - 1)
                          IN  out[keep + k] =
                                  RAdd(RMul(A[keep + k], RSub(Whole(1), w)),
                                       RMul(B[k], w))
                    /\ \A k \in (cs + 1)..Len(B) : out[keep + k] = B[k]

\* a stitched call blended ten samples of two segments of different content
C22_TenSamplesBlended ==
    \E c \in Calls :
        /\ Stitched(c)
        /\ CS(Req(c)) = 10
        /\ Len(Accumulated(c, 1)) > 10
        /\ Len(Operand(c, 1)) > 10
        /\ Len(MergeResult(c, 1)) = Len(Accumulated(c, 1)) + Len(Operand(c, 1)) - 10

\* C23: on a buffer with at least 2 * crossfade_samples = 2 * cs samples
\* _make_loopable raises nothing and returns len - cs samples: the sum of the
\* faded-in first cs and the faded-out last cs samples, then buffer[cs:-cs].
C23_LoopWrapperShape ==
    \A c \in Calls : \A j \in DOMAIN loop_inputs[c] :
        LET x == loop_inputs[c][j]
            cs == CS(Req(c))
        IN  Len(x) >= 2 * cs =>
                /\ ~LoopableRaises(x, cs)
                /\ LET out == _make_loopable(x, cs)
                   IN  /\ Len(out) = Len(x) - cs
                       /\ \A k \in 1..cs :
                             LET w == IF cs = 1 THEN Whole(0) ELSE Rat(k - 1, cs - 1)
                             IN  out[k] = RAdd(RMul(x[k], w),
                                               RMul(x[Len(x) - cs + k], RSub(Whole(1), w)))
                       /\ \A k \in (cs + 1)..(Len(x) - cs) : out[k] = x[k]

\* C24: generate_sfx passes through Validating, CacheLookup, Planning,
\* GeneratingTiles, Normalizing, Stitching, Looping, DurationEnforcing,
\* Encoding, Caching, Done in that order and never goes back to an earlier
\* one: the steps a call has logged never decrease in that order, so every
\* provider call precedes every _process_audio_tile call.
C24_FixedStateOrder ==
    LET Rank(name) ==
            CASE name = "validate" -> 1
              [] name = "cache_get" -> 2
              [] name = "plan" -> 3
              [] name = "provider" -> 4
              [] name \in {"process", "tile_error"} -> 5
              [] name \in {"stitch", "crossfade"} -> 6
              [] name = "loop" -> 7
              [] name = "enforce" -> 8
              [] name = "save" -> 9
              [] name = "cache_put" -> 10
              [] name = "return" -> 11
    IN  \A c \in Calls : \A j, k \in DOMAIN log[c] :
            j < k => Rank(log[c][j][1]) <= Rank(log[c][k][1])

\* C27: a returned call for a non-loopable request of N >= 2 tiles whose tiles
\* all have L >= crossfade_samples samples with N * L = int(duration *
\* sample_rate) stitched N * L - (N - 1) * crossfade_samples samples and
\* handed _save_audio that buffer followed by (N - 1) * crossfade_samples
\* zeros.
C27_StitchedThenPadded ==
    \A c \in Calls :
        LET req == Req(c)
            N == tiles_needed(req)
            cs == CS(req)
            L == Len(tiles[c][1])
        IN  (/\ Done(c)
             /\ ~TooShort(req) /\ ~TooLong(req)
             /\ ~req.loopable
             /\ N >= 2
             /\ Len(tiles[c]) = N
             /\ \A k \in 1..N : Len(tiles[c][k]) = L
             /\ L >= cs
             /\ N * L = target_samples(req))
            => /\ ~StitchRaises(tiles[c], cs, FALSE)
               /\ final_audio[c] # None
               /\ LET stitched == _stitch_tiles(tiles[c], cs, FALSE)
                  IN  /\ Len(stitched) = N * L - (N - 1) * cs
                      /\ final_audio[c][1] = stitched \o zeros((N - 1) * cs)

InRange(audio) == \A k \in DOMAIN audio : RLe(RAbs(audio[k]), Whole(1))

\* C28: when every sample of every normalized tile of a call lies in [-1, 1],
\* every sample of the buffer handed to _save_audio lies in [-1, 1].
C28_RangePreserved ==
    \A c \in Calls :
        (final_audio[c] # None /\ \A k \in DOMAIN tiles[c] : InRange(tiles[c][k]))
            => InRange(final_audio[c][1])

\* a loopable call blended tiles that reach magnitude 1 with a ramp of three
\* samples, in the loop wrapper and in the stitcher, and padded the result
C28_BlendedByRamp ==
    \E c \in Calls :
        /\ Stitched(c)
        /\ Req(c).loopable
        /\ CS(Req(c)) = 3
        /\ \A k \in DOMAIN tiles[c] : Len(tiles[c][k]) = 16 /\ Peak(tiles[c][k]) = Whole(1)
        /\ Len(final_audio[c][1]) > Len(_stitch_tiles(StitchInput(c), 3, TRUE))

\* C29: a step of a call made with use_cache = False leaves the cache
\* directory as it was and logs neither a cache lookup nor a cache write, and
\* when such a call has succeeded it has posted every tile of its plan to the
\* provider, whether or not an entry for its key exists.
C29_UncachedCallLeavesStore ==
    [][\A c \in Calls :
          (log'[c] # log[c] /\ ~use_cache'[c]) =>
              /\ cache_dir' = cache_dir
              /\ \A k \in DOMAIN log'[c] : log'[c][k][1] \notin {"cache_get", "cache_put"}
              /\ (result'[c] # None /\ result'[c][1].success) =>
                     Len(SelectSeq(log'[c], LAMBDA e : e[1] = "provider"))
                         = tiles_needed(request'[c][1])]_vars

\* a call with use_cache = False has succeeded while the entry an earlier
\* caching call wrote for the same request is in the cache directory
C29_UncachedOverExistingEntry ==
    \E c, d \in Calls :
        /\ d < c
        /\ Succeeded(d) /\ use_cache[d] /\ Logged(d, <<"cache_put", 2>>)
        /\ Succeeded(c) /\ ~use_cache[c]
        /\ Req(c) = Req(d)
        /\ _generate_cache_key(Req(c)) \in DOMAIN cache_dir
        /\ cleared = <<>>

\* C30: once generate_sfx has returned, with success or with failure, the
\* temporary file it created for the encoding no longer exists.
C30_TempFileRemoved ==
    \A c \in Calls : Done(c) => c \notin temp_files

\* C25: two calls for the same request with use_cache = True that both found
\* no file for their key and both succeeded have each posted every tile of
\* the plan, so the provider was invoked 2N times, and each has written the
\* cache entry.
C25_BothRunBothWrite ==
    \A c, d \in Calls :
        (/\ c # d
         /\ Succeeded(c) /\ Succeeded(d)
         /\ use_cache[c] /\ use_cache[d]
         /\ Req(c) = Req(d)
         /\ Logged(c, <<"cache_get", 0>>) /\ Logged(d, <<"cache_get", 0>>))
        => /\ Len(Posted(c)) = tiles_needed(Req(c))
           /\ Len(Posted(d)) = tiles_needed(Req(d))
           /\ provider_calls >= 2 * tiles_needed(Req(c))
           /\ \E w \in 0..2 : Logged(c, <<"cache_put", w>>)
           /\ \E w \in 0..2 : Logged(d, <<"cache_put", w>>)

\* the second call started while the first was suspended in the provider;
\* both missed the cache, both succeeded and both wrote the two cache files
C25_OverlappingCallsBothWrote ==
    \E c, d \in Calls :
        /\ Succeeded(c) /\ Succeeded(d)
        /\ use_cache[c] /\ use_cache[d]
        /\ Req(c) = Req(d)
        /\ start_time[c] < start_time[d]
        /\ start_time[d] < start_time[c] + Res(c).generation_time
        /\ Logged(c, <<"cache_get", 0>>) /\ Logged(d, <<"cache_get", 0>>)
        /\ Logged(c, <<"cache_put", 2>>) /\ Logged(d, <<"cache_put", 2>>)
        /\ provider_calls = 2 * tiles_needed(Req(c))

Cancelled(c) == \E k \in DOMAIN log[c] : log[c][k][1] = "cancelled"

\* C26: the step that cancels a call suspended in a provider call leaves the
\* cache directory and every result as they were; a cancelled call has
\* stitched nothing, has written no cache entry, returns no audio, and takes
\* no further step.
C26_CancelDiscards ==
    [][\A c \in Calls :
          /\ (~Cancelled(c) /\ Cancelled(c)') =>
                 /\ pc[c] = "awaiting"
                 /\ cache_dir' = cache_dir
                 /\ \A d \in Calls \ {c} : result'[d] = result[d]
          /\ Cancelled(c)' =>
                 /\ final_audio'[c] = None
                 /\ \A k \in DOMAIN log'[c] : log'[c][k][1] # "cache_put"
                 /\ result'[c] # None =>
                        ~result'[c][1].success /\ result'[c][1].audio_data = None
          /\ Cancelled(c) => log'[c] = log[c] /\ pc'[c] = pc[c]]_vars

\* a call was cancelled while suspended in the provider call for its second
\* tile, after its first tile had been generated and normalized
C26_CancelledAfterFirstTile ==
    \E c \in Calls :
        /\ pc[c] = "cancelled"
        /\ Logged(c, <<"cancelled", 1>>)
        /\ Len(tiles[c]) = 1
        /\ use_cache[c]
        /\ result[c] = None

====
